---- MODULE Spec2Model ----
(***************************************************************************)
(* Model of the Confluence role lookup of automated_tests_app.             *)
(*                                                                         *)
(* The repository holds two revisions of the same program:                 *)
(*   rev = "app" : src/app.py together with src/Confluence.py              *)
(*                 (class MyConfluenceAPI)                                 *)
(*   rev = "cmd" : src/automated_tests_cmd_app.py (class ConfluencePage)   *)
(* A page handle is driven either by the command line application          *)
(* (check_app_confluence_page) or by a direct user of the class, as in the *)
(* example of the Confluence.py module docstring (client).                 *)
(*                                                                         *)
(* The command line application is modelled from its start: the            *)
(* environment check, the command loop, the four pages and their command   *)
(* handlers. Strings whose characters matter (commands, folder names,      *)
(* paths, page names) are sequences of one-character strings.              *)
(***************************************************************************)
EXTENDS Integers, Sequences, FiniteSets, TLC

VARIABLES
    rev,        \* which revision of the program runs: "app" or "cmd"
    caller,     \* who drives the page handle: "none", "cli" or "client"
    pc,         \* "idle", "fetch" (page request in flight), "ready",
                \* "lookup" (user request in flight), "done"
    configured, \* self.confluence_page and self.confluence_api_key both truthy
    body,       \* self.body of the page handle
    script,     \* the keyword lists the caller passes to the resolver, in order
    log,        \* what happened since the handle was constructed, in order:
                \* network requests (with their answers) and header searches
    results,    \* outcome of every finished resolver call on the handle
    raised,     \* exception that ended the check, or NoException
    sub_page_name,  \* self.sub_page_name of the page handle
    run,        \* "start", "running" (the command loop), "exited",
                \* "config_error", "crashed" (uncaught exception), or
                \* "library" (MyConfluenceAPI used directly, no application)
    env,        \* APPS_FOLDER, CONFLUENCE_PAGE, CONFLUENCE_API_KEY
    current_page,       \* AppForTests.current_page
    matching_folders,   \* AppForTests.matching_folders, as a set of items
    chosen_app,         \* AppForTests.chosen_app, NoApp for None
    screen,     \* the page render_page showed last, "none" before the first
    command,    \* the command handle_command was given last
    returned,   \* how that handle_command ended: "True", "False", "raised"
    printed     \* the last message printed

corevars == <<rev, caller, pc, configured, body, script, log, results, raised>>
navvars == <<current_page, matching_folders, chosen_app>>
appvars == <<run, env, current_page, matching_folders, chosen_app, screen,
             command, returned, printed>>
vars == <<rev, caller, pc, configured, body, script, log, results, raised,
          sub_page_name, run, env, current_page, matching_folders, chosen_app,
          screen, command, returned, printed>>

-----------------------------------------------------------------------------
(* Bounds of the model *)

\* th elements in a fetched page
MaxRows == 2
\* keywords in a list a direct client passes
MaxKeywords == 2

-----------------------------------------------------------------------------
(* Values *)

NoneVal == [kind |-> "None", val |-> ""]
Str(s) == [kind |-> "str", val |-> s]
Raise(e) == [kind |-> "raise", val |-> e]

\* Python truthiness of an Optional[str]
Truthy(v) == v.kind = "str" /\ v.val # ""

NoException == "none"
Revisions == {"app", "cmd"}

\* Role labels that occur as th text in a page
ThTexts == {"Developer:", "Main Developer:", "Analyst:"}
\* ri:userkey attribute values, the empty attribute included
UserKeys == {"", "U1", "U2"}
Usernames == {"jane.smith", "john.doe"}

\* What follows a th in the markup: the next sibling td (or none), the first
\* ri:user element in it (or none), and its ri:userkey attribute (or none).
Cells ==
    {[td |-> FALSE, user |-> FALSE, attr |-> FALSE, key |-> ""],
     [td |-> TRUE, user |-> FALSE, attr |-> FALSE, key |-> ""],
     [td |-> TRUE, user |-> TRUE, attr |-> FALSE, key |-> ""]}
    \cup {[td |-> TRUE, user |-> TRUE, attr |-> TRUE, key |-> k] : k \in UserKeys}

Rows == {[th |-> t, cell |-> c] : t \in ThTexts, c \in Cells}

SeqsUpTo(S, n) == UNION {[1..m -> S] : m \in 0..n}

\* response.text of the page request: the empty string, or markup with the
\* given th elements in document order
EmptyText == [kind |-> "str", empty |-> TRUE, rows |-> <<>>]
Html(rows) == [kind |-> "str", empty |-> FALSE, rows |-> rows]
PageTexts == {EmptyText} \cup {Html(r) : r \in SeqsUpTo(Rows, MaxRows)}

Unfetched == [kind |-> "unfetched", empty |-> TRUE, rows |-> <<>>]
NoBody == [kind |-> "None", empty |-> TRUE, rows |-> <<>>]

\* Responses of the page request
PageResponses ==
    {[status |-> "ok", text |-> t] : t \in PageTexts}
    \cup {[status |-> "http_error", text |-> EmptyText],
          [status |-> "network_error", text |-> EmptyText]}

\* Responses of the user request: a JSON object with a username field, a
\* JSON object without one, a non-2xx answer (whose JSON body has no
\* username field), or no answer at all
NoField == "<no username field>"
UserResponses ==
    {[status |-> "ok", username |-> u] : u \in Usernames \cup {NoField}}
    \cup {[status |-> "http_error", username |-> NoField],
          [status |-> "network_error", username |-> NoField]}

Pending == [status |-> "pending", username |-> NoField]

\* Entries of the log. call is the number of the resolver call that made the
\* entry, 0 for the constructor.
PageRequest ==
    [ev |-> "page", call |-> 0, key |-> "", html |-> NoneVal, resp |-> Pending]
UserRequest(c, k) ==
    [ev |-> "user", call |-> c, key |-> k, html |-> NoneVal, resp |-> Pending]
Search(c, key_word, html) ==
    [ev |-> "search", call |-> c, key |-> key_word, html |-> html, resp |-> Pending]

-----------------------------------------------------------------------------
(* Strings *)

Digits == {"0", "1", "2", "3", "4", "5", "6", "7", "8", "9"}
DigitChars == <<"0", "1", "2", "3", "4", "5", "6", "7", "8", "9">>
\* One character that str.isnumeric accepts and int rejects: U+00B2
SuperscriptTwo == "<U+00B2>"
NumericChars == Digits \cup {SuperscriptTwo}

Uppercase == <<"A", "B", "C", "D", "E", "F", "G", "H", "I", "J", "K", "L", "M",
               "N", "O", "P", "Q", "R", "S", "T", "U", "V", "W", "X", "Y", "Z">>
Lowercase == <<"a", "b", "c", "d", "e", "f", "g", "h", "i", "j", "k", "l", "m",
               "n", "o", "p", "q", "r", "s", "t", "u", "v", "w", "x", "y", "z">>

\* str.lower
lower(s) ==
    [i \in 1..Len(s) |->
        IF \E k \in 1..Len(Uppercase) : Uppercase[k] = s[i]
        THEN Lowercase[CHOOSE k \in 1..Len(Uppercase) : Uppercase[k] = s[i]]
        ELSE s[i]]

\* str.isnumeric: at least one character, all of them numeric
isnumeric(s) == Len(s) > 0 /\ \A i \in 1..Len(s) : s[i] \in NumericChars

\* int(s) of a string without sign or blanks: ValueError unless every
\* character is a decimal digit
IntRaises(s) == Len(s) = 0 \/ \E i \in 1..Len(s) : s[i] \notin Digits
DigitValue(ch) == (CHOOSE k \in 1..Len(DigitChars) : DigitChars[k] = ch) - 1
RECURSIVE int(_)
int(s) ==
    IF Len(s) = 0 THEN 0
    ELSE 10 * int(SubSeq(s, 1, Len(s) - 1)) + DigitValue(s[Len(s)])

\* command in item
Contains(item, sub) ==
    \E k \in 0..(Len(item) - Len(sub)) : SubSeq(item, k + 1, k + Len(sub)) = sub

\* os.path.join of a folder and an entry of its listing
Sep == "/"
join(folder, item) ==
    IF Len(item) > 0 /\ item[1] = Sep THEN item
    ELSE IF Len(folder) = 0 \/ folder[Len(folder)] = Sep THEN folder \o item
    ELSE folder \o <<Sep>> \o item

\* extract_app_id: the first run of decimal digits in the string it is given,
\* the empty string when there is none. re.search(r'\d+', s) in app.py and
\* re.match(r'^\D*(\d+)', s) in the older revision find the same run.
extract_app_id(r, folder_name) ==
    LET at == {i \in 1..Len(folder_name) : folder_name[i] \in Digits}
    IN IF at = {} THEN <<>>
       ELSE LET b == CHOOSE x \in at : \A y \in at : x <= y
                ends == {j \in b..Len(folder_name) : \A k \in b..j : folder_name[k] \in Digits}
                e == CHOOSE x \in ends : \A y \in ends : y <= x
            IN SubSeq(folder_name, b, e)

\* f"app_{app_id}"
AppPrefix == <<"a", "p", "p", "_">>
SubPageName(app_id) == AppPrefix \o app_id

-----------------------------------------------------------------------------
(* The application: pages, commands, environment, apps folder *)

HOME == "HOME"
INPUT_APP_FOR_CONFIG_CHECK == "INPUT_APP_FOR_CONFIG_CHECK"
TEST_AUTOMATION == "TEST_AUTOMATION"
CHOOSE_PROPOSED_APP == "CHOOSE_PROPOSED_APP"
Pages == {HOME, INPUT_APP_FOR_CONFIG_CHECK, TEST_AUTOMATION, CHOOSE_PROPOSED_APP}

\* chosen_app = None
NoApp == 0
NoCommand == <<"<none>">>
NoSubPage == <<>>

\* What the user types at the prompt
Commands ==
    {<<"e", "x", "i", "t">>, <<"E", "x", "i", "t">>,
     <<"h", "o", "m", "e">>, <<"H", "O", "M", "E">>,
     <<"r", "e", "s", "t", "a", "r", "t">>,
     <<"1">>, <<"2">>, <<"3">>, <<"1", "2">>,
     <<SuperscriptTwo>>, <<"-", "1">>, <<"x">>, <<>>}

\* Values of APPS_FOLDER: unset or empty, a path without digits, a path with
\* a digit in a parent directory
UnsetFolder == <<>>
PlainFolder == <<"/", "a">>
DigitFolder == <<"/", "v", "7">>
\* APPS_FOLDER of the older revision, a constant of the module
CmdAppsFolder ==
    <<"C", ":", "/", "U", "s", "e", "r", "s", "/", "k", "r", "a", "s", "n", "/",
      "O", "n", "e", "D", "r", "i", "v", "e", "/", "P", "u", "l", "p", "i", "t",
      "/", "w", "o", "r", "k", "/", "t", "e", "s", "t">>

\* os.environ as the application reads it at import
Environments ==
    {[APPS_FOLDER |-> f, CONFLUENCE_PAGE |-> p, CONFLUENCE_API_KEY |-> k] :
        f \in {UnsetFolder, PlainFolder, DigitFolder}, p \in BOOLEAN, k \in BOOLEAN}
\* The constants of the older revision
CmdEnvironment ==
    [APPS_FOLDER |-> CmdAppsFolder, CONFLUENCE_PAGE |-> TRUE, CONFLUENCE_API_KEY |-> TRUE]

\* os.listdir(APPS_FOLDER): app folders named <numericId>_<name> and a file
Listing ==
    <<[name |-> <<"1", "2", "_", "a">>, isdir |-> TRUE],
      [name |-> <<"1", "x">>, isdir |-> FALSE],
      [name |-> <<"2", "_", "b">>, isdir |-> TRUE]>>
\* What the search finds at APPS_FOLDER: nothing there, a folder that cannot
\* be listed, or the listing
FolderStates == {"missing", "unreadable", "listed"}

\* matching_folders is kept as a set of items (key, path)
Item(index, item_path) == [key |-> index, path |-> item_path]
Keys(folders) == {it.key : it \in folders}
PathOf(folders, k) == (CHOOSE it \in folders : it.key = k).path

\* Messages
Msg(m, a) == [msg |-> m, args |-> a]
NoMsg == Msg("", <<>>)

-----------------------------------------------------------------------------
(* Keyword lists *)

DeveloperKeywords == <<"Developer:", "Main Developer:">>
AnalystKeywords == <<"Analyst:", "Analyst">>

\* keyword lists a direct client passes
ClientKeywords == {"Developer:", "Main Developer:"}
ClientKeywordLists == SeqsUpTo(ClientKeywords, MaxKeywords)

\* Variant of CheckScript in which every revision resolves both roles
CheckScriptBothRoles(r) == <<DeveloperKeywords, AnalystKeywords>>

\* The resolver calls one check makes, in order
CheckScript(r) ==
    IF r = "app" THEN <<DeveloperKeywords>>
    ELSE <<DeveloperKeywords, AnalystKeywords>>

-----------------------------------------------------------------------------
(* The parser *)

Min(S) == CHOOSE x \in S : \A y \in S : x <= y

\* Variant of FindTh that takes the last th with the text
FindThLast(rows, person_type) ==
    LET hits == {i \in 1..Len(rows) : rows[i].th = person_type}
    IN IF hits = {} THEN 0 ELSE CHOOSE x \in hits : \A y \in hits : y <= x

\* soup.find('th', string=person_type): index of the first th whose text
\* equals person_type, 0 when there is none
FindTh(rows, person_type) ==
    LET hits == {i \in 1..Len(rows) : rows[i].th = person_type}
    IN IF hits = {} THEN 0 ELSE Min(hits)

\* MyConfluenceAPI.get_person_responsible
get_person_responsible_app(html, person_type) ==
    IF html.kind # "str" \/ html.empty THEN NoneVal
    ELSE LET th == FindTh(html.rows, person_type)
         IN IF th = 0 THEN NoneVal
            ELSE LET c == html.rows[th].cell
                 IN IF ~c.td THEN NoneVal
                    ELSE IF c.user /\ c.attr THEN Str(c.key)
                    ELSE NoneVal

\* ConfluencePage.get_person_responsible: every exception becomes ""
get_person_responsible_cmd(html, person_type) ==
    IF html.kind # "str" \/ html.empty THEN Str("")
    ELSE LET th == FindTh(html.rows, person_type)
         IN IF th = 0 THEN Str("")
            ELSE LET c == html.rows[th].cell
                 IN IF ~c.td THEN Str("")
                    ELSE IF ~c.user THEN Str("")
                    ELSE IF ~c.attr THEN Str("")
                    ELSE Str(c.key)

get_person_responsible(r, html, person_type) ==
    IF r = "app" THEN get_person_responsible_app(html, person_type)
    ELSE get_person_responsible_cmd(html, person_type)

\* Variant of the loop that searches every keyword and lets the last one
\* that yields a key win
RECURSIVE KeywordLoopLastWins(_, _, _, _)
KeywordLoopLastWins(r, html, list_key_words, i) ==
    IF i > Len(list_key_words)
    THEN [tried |-> i - 1, found |-> FALSE, key |-> NoneVal]
    ELSE LET person_api_key == get_person_responsible(r, html, list_key_words[i])
             rest == KeywordLoopLastWins(r, html, list_key_words, i + 1)
         IN IF Truthy(person_api_key) /\ ~rest.found
            THEN [tried |-> rest.tried, found |-> TRUE, key |-> person_api_key]
            ELSE rest

\* Variant of the loop that tests the key with "is not None" instead of
\* its truth value
RECURSIVE KeywordLoopIsNotNone(_, _, _, _)
KeywordLoopIsNotNone(r, html, list_key_words, i) ==
    IF i > Len(list_key_words)
    THEN [tried |-> i - 1, found |-> FALSE, key |-> NoneVal]
    ELSE LET person_api_key == get_person_responsible(r, html, list_key_words[i])
         IN IF person_api_key.kind # "None"
            THEN [tried |-> i, found |-> TRUE, key |-> person_api_key]
            ELSE KeywordLoopIsNotNone(r, html, list_key_words, i + 1)

\* The loop of get_person_responsible_by_keywords from keyword i on: how many
\* keywords were searched, whether the loop was left by its return, and the
\* key it was left with
RECURSIVE KeywordLoop(_, _, _, _)
KeywordLoop(r, html, list_key_words, i) ==
    IF i > Len(list_key_words)
    THEN [tried |-> i - 1, found |-> FALSE, key |-> NoneVal]
    ELSE LET person_api_key == get_person_responsible(r, html, list_key_words[i])
         IN IF Truthy(person_api_key)
            THEN [tried |-> i, found |-> TRUE, key |-> person_api_key]
            ELSE KeywordLoop(r, html, list_key_words, i + 1)

-----------------------------------------------------------------------------
(* The state machine *)

Init ==
    /\ rev \in Revisions
    /\ caller = "none"
    /\ pc = "idle"
    /\ configured = TRUE
    /\ body = Unfetched
    /\ script = <<>>
    /\ log = <<>>
    /\ results = <<>>
    /\ raised = NoException
    /\ sub_page_name = NoSubPage
    /\ run \in (IF rev = "app" THEN {"start", "library"} ELSE {"start"})
    /\ env \in (IF rev = "app" /\ run = "start" THEN Environments ELSE {CmdEnvironment})
    /\ current_page = HOME
    /\ matching_folders = {}
    /\ chosen_app = NoApp
    /\ screen = "none"
    /\ command = NoCommand
    /\ returned = "none"
    /\ printed = NoMsg

\* __init__ and the first half of get_page_body: the configuration check and
\* the page request
Construct(who, conf, scr) ==
    /\ caller' = who
    /\ configured' = conf
    /\ script' = scr
    /\ body' = Unfetched
    /\ results' = <<>>
    /\ IF rev = "app" /\ ~conf
       THEN /\ log' = <<>>
            /\ raised' = "ValueError"
            /\ pc' = "done"
       ELSE /\ log' = <<PageRequest>>
            /\ raised' = NoException
            /\ pc' = "fetch"
    /\ UNCHANGED rev

-----------------------------------------------------------------------------
(* The application: start and command handlers *)

EnvNames == <<"APPS_FOLDER", "CONFLUENCE_PAGE", "CONFLUENCE_API_KEY">>
\* Python truthiness of an environment value
IsSet(e, name) ==
    IF name = "APPS_FOLDER" THEN e.APPS_FOLDER # <<>>
    ELSE IF name = "CONFLUENCE_PAGE" THEN e.CONFLUENCE_PAGE
    ELSE e.CONFLUENCE_API_KEY

\* Variant of validate_environment that does not look at APPS_FOLDER
validate_environment_two(e) ==
    SelectSeq(EnvNames, LAMBDA name : name # "APPS_FOLDER" /\ ~IsSet(e, name))

\* validate_environment: the names it reports missing; ConfigError is raised
\* when there is one
validate_environment(e) == SelectSeq(EnvNames, LAMBDA name : ~IsSet(e, name))

\* navigate_to_page: switch the page and render it
navigate_to_page(page) ==
    /\ current_page' = page
    /\ screen' = page

\* No navigation: page and screen stay
Stay ==
    /\ current_page' = current_page
    /\ screen' = screen

\* handle_command returns True and the loop goes on
ReturnsTrue ==
    /\ returned' = "True"
    /\ run' = run

\* An exception leaves handle_command: the loop of app.py reports it and goes
\* on, the loop of the older revision has no handler and the program ends
Raises(e) ==
    /\ returned' = "raised"
    /\ run' = IF rev = "app" THEN run ELSE "crashed"
    /\ printed' = IF rev = "app" THEN Msg("An error occurred. Please try again.", <<>>)
                  ELSE Msg("Traceback", <<e>>)

\* The main block: the environment check of app.py, then the HOME page
Main ==
    /\ run = "start"
    /\ IF rev = "app" /\ validate_environment(env) # <<>>
       THEN /\ run' = "config_error"
            /\ printed' = Msg("Configuration Error", validate_environment(env))
            /\ UNCHANGED <<current_page, screen>>
       ELSE /\ run' = "running"
            /\ navigate_to_page(HOME)
            /\ printed' = NoMsg
    /\ UNCHANGED <<corevars, sub_page_name, env, matching_folders, chosen_app,
                   command, returned>>

\* Variant of handle_home_commands that opens the search page on every
\* number
handle_home_commands_any(cmd) ==
    /\ navigate_to_page(INPUT_APP_FOR_CONFIG_CHECK)
    /\ printed' = NoMsg
    /\ matching_folders' = matching_folders
    /\ chosen_app' = chosen_app
    /\ ReturnsTrue

\* handle_home_commands
handle_home_commands(cmd) ==
    /\ IF cmd = <<"1">>
       THEN navigate_to_page(INPUT_APP_FOR_CONFIG_CHECK)
       ELSE Stay
    /\ printed' = NoMsg
    /\ matching_folders' = matching_folders
    /\ chosen_app' = chosen_app
    /\ ReturnsTrue

\* The directories of the listing whose name contains cmd, keyed by their
\* position in the listing
Found(folder, cmd) ==
    {Item(i, join(folder, Listing[i].name)) :
        i \in {k \in 1..Len(Listing) : Listing[k].isdir /\ Contains(Listing[k].name, cmd)}}

\* Variant of _handle_input_app_commands that shows the list of folders
\* whether or not the search found one
handle_input_app_commands_always(cmd) ==
    /\ chosen_app' = chosen_app
    /\ IF rev = "app" /\ env.APPS_FOLDER = <<>>
       THEN /\ printed' = Msg("Error: APPS_FOLDER not configured.", <<>>)
            /\ matching_folders' = matching_folders
            /\ Stay
            /\ ReturnsTrue
       ELSE \E fs \in FolderStates :
            IF fs = "listed"
            THEN /\ matching_folders' = Found(env.APPS_FOLDER, cmd)
                 /\ navigate_to_page(CHOOSE_PROPOSED_APP)
                 /\ printed' = NoMsg
                 /\ ReturnsTrue
            ELSE IF rev = "cmd"
            THEN /\ matching_folders' = {}
                 /\ Stay
                 /\ Raises(IF fs = "missing" THEN "FileNotFoundError" ELSE "PermissionError")
            ELSE IF fs = "missing"
            THEN /\ printed' = Msg("Error: Apps folder not found", <<>>)
                 /\ matching_folders' = matching_folders
                 /\ Stay
                 /\ ReturnsTrue
            ELSE /\ printed' = Msg("Error: Could not read apps folder.", <<>>)
                 /\ matching_folders' = {}
                 /\ Stay
                 /\ ReturnsTrue

\* Variant of _handle_input_app_commands that adds what it finds to the
\* folders of earlier searches
handle_input_app_commands_keep(cmd) ==
    /\ chosen_app' = chosen_app
    /\ IF rev = "app" /\ env.APPS_FOLDER = <<>>
       THEN /\ printed' = Msg("Error: APPS_FOLDER not configured.", <<>>)
            /\ matching_folders' = matching_folders
            /\ Stay
            /\ ReturnsTrue
       ELSE \E fs \in FolderStates :
            IF fs = "listed"
            THEN /\ matching_folders' = matching_folders \cup Found(env.APPS_FOLDER, cmd)
                 /\ IF matching_folders \cup Found(env.APPS_FOLDER, cmd) # {}
                    THEN /\ navigate_to_page(CHOOSE_PROPOSED_APP)
                         /\ printed' = NoMsg
                    ELSE /\ Stay
                         /\ printed' = Msg("No folders found with app number", <<>>)
                 /\ ReturnsTrue
            ELSE IF rev = "cmd"
            THEN /\ matching_folders' = {}
                 /\ Stay
                 /\ Raises(IF fs = "missing" THEN "FileNotFoundError" ELSE "PermissionError")
            ELSE IF fs = "missing"
            THEN /\ printed' = Msg("Error: Apps folder not found", <<>>)
                 /\ matching_folders' = matching_folders
                 /\ Stay
                 /\ ReturnsTrue
            ELSE /\ printed' = Msg("Error: Could not read apps folder.", <<>>)
                 /\ matching_folders' = {}
                 /\ Stay
                 /\ ReturnsTrue

\* _handle_input_app_commands
handle_input_app_commands(cmd) ==
    /\ chosen_app' = chosen_app
    /\ IF rev = "app" /\ env.APPS_FOLDER = <<>>
       THEN /\ printed' = Msg("Error: APPS_FOLDER not configured.", <<>>)
            /\ matching_folders' = matching_folders
            /\ Stay
            /\ ReturnsTrue
       ELSE \E fs \in FolderStates :
            IF fs = "listed"
            THEN /\ matching_folders' = Found(env.APPS_FOLDER, cmd)
                 /\ IF Found(env.APPS_FOLDER, cmd) # {}
                    THEN /\ navigate_to_page(CHOOSE_PROPOSED_APP)
                         /\ printed' = NoMsg
                    ELSE /\ Stay
                         /\ printed' = Msg("No folders found with app number", <<>>)
                 /\ ReturnsTrue
            ELSE IF rev = "cmd"
            THEN /\ matching_folders' = {}
                 /\ Stay
                 /\ Raises(IF fs = "missing" THEN "FileNotFoundError" ELSE "PermissionError")
            ELSE IF fs = "missing"
            THEN /\ printed' = Msg("Error: Apps folder not found", <<>>)
                 /\ matching_folders' = matching_folders
                 /\ Stay
                 /\ ReturnsTrue
            ELSE /\ printed' = Msg("Error: Could not read apps folder.", <<>>)
                 /\ matching_folders' = {}
                 /\ Stay
                 /\ ReturnsTrue

\* Variant of _handle_chooseapps_commands that takes any number as the
\* selection
handle_chooseapps_commands_any(cmd) ==
    /\ matching_folders' = matching_folders
    /\ IF IntRaises(cmd)
       THEN /\ chosen_app' = chosen_app
            /\ Stay
            /\ Raises("ValueError")
       ELSE /\ chosen_app' = int(cmd)
            /\ navigate_to_page(TEST_AUTOMATION)
            /\ printed' = NoMsg
            /\ ReturnsTrue

\* _handle_chooseapps_commands
handle_chooseapps_commands(cmd) ==
    /\ matching_folders' = matching_folders
    /\ IF IntRaises(cmd)
       THEN /\ chosen_app' = chosen_app
            /\ Stay
            /\ Raises("ValueError")
       ELSE IF int(cmd) \in Keys(matching_folders)
       THEN /\ chosen_app' = int(cmd)
            /\ navigate_to_page(TEST_AUTOMATION)
            /\ printed' = NoMsg
            /\ ReturnsTrue
       ELSE /\ chosen_app' = chosen_app
            /\ Stay
            /\ printed' = IF rev = "app" THEN Msg("Invalid selection", <<>>) ELSE printed
            /\ ReturnsTrue

\* _handle_test_automation_commands for every command but the check
handle_test_automation_commands(cmd) ==
    /\ cmd # <<"1">>
    /\ Stay
    /\ matching_folders' = matching_folders
    /\ chosen_app' = chosen_app
    /\ printed' = IF cmd = <<"2">> THEN Msg("Validate config file", <<>>)
                  ELSE IF rev = "app" THEN Msg("Unknown command", <<>>)
                  ELSE printed
    /\ ReturnsTrue

\* Variant of GoHome that also forgets the folders and the chosen app
GoHomeReset ==
    /\ navigate_to_page(HOME)
    /\ matching_folders' = {}
    /\ chosen_app' = NoApp

\* handle_command lines that navigate to HOME on "home" and "restart"
GoHome ==
    /\ navigate_to_page(HOME)
    /\ matching_folders' = matching_folders
    /\ chosen_app' = chosen_app

ExitCommand == <<"e", "x", "i", "t">>
HomeCommands == {<<"r", "e", "s", "t", "a", "r", "t">>, <<"h", "o", "m", "e">>}

\* One turn of monitor_command_line: a command is read and handle_command
\* deals with it. The check of the Confluence page, which the command "1" of
\* the TEST_AUTOMATION page starts, is check_app_confluence_page below.
handle_command ==
    /\ run = "running"
    /\ pc = "idle"
    /\ \E cmd \in Commands :
        /\ ~(current_page = TEST_AUTOMATION /\ cmd = <<"1">>)
        /\ command' = cmd
        /\ IF lower(cmd) = ExitCommand
           THEN /\ printed' = Msg("See you again! Goodbye.", <<>>)
                /\ returned' = "False"
                /\ run' = "exited"
                /\ Stay
                /\ UNCHANGED <<matching_folders, chosen_app>>
           ELSE IF lower(cmd) \in HomeCommands
           THEN /\ GoHome
                /\ printed' = NoMsg
                /\ ReturnsTrue
           ELSE IF isnumeric(cmd)
           THEN IF current_page = HOME THEN handle_home_commands(cmd)
                ELSE IF current_page = INPUT_APP_FOR_CONFIG_CHECK
                THEN handle_input_app_commands(cmd)
                ELSE IF current_page = CHOOSE_PROPOSED_APP
                THEN handle_chooseapps_commands(cmd)
                ELSE handle_test_automation_commands(cmd)
           ELSE /\ printed' = Msg("Sorry, this function is not supported yet.", <<>>)
                /\ Stay
                /\ UNCHANGED <<matching_folders, chosen_app>>
                /\ ReturnsTrue
    /\ UNCHANGED <<corevars, sub_page_name, env>>

\* Ctrl-C at the prompt: app.py leaves the loop, the older revision ends
\* with the uncaught KeyboardInterrupt
KeyboardInterrupt ==
    /\ run = "running"
    /\ pc = "idle"
    /\ run' = IF rev = "app" THEN "exited" ELSE "crashed"
    /\ printed' = IF rev = "app" THEN Msg("Interrupted by user. Exiting...", <<>>)
                  ELSE Msg("Traceback", <<"KeyboardInterrupt">>)
    /\ UNCHANGED <<corevars, sub_page_name, env, current_page, matching_folders,
                   chosen_app, screen, command, returned>>

\* AppForTests.check_app_confluence_page up to the page request, reached by
\* the command "1" on the TEST_AUTOMATION page
check_app_confluence_page ==
    /\ run = "running"
    /\ pc = "idle"
    /\ current_page = TEST_AUTOMATION
    /\ command' = <<"1">>
    /\ UNCHANGED <<env, current_page, matching_folders, chosen_app, screen>>
    /\ IF chosen_app = NoApp
       THEN /\ printed' = Msg("No app selected", <<>>)
            /\ ReturnsTrue
            /\ UNCHANGED <<corevars, sub_page_name>>
       ELSE IF chosen_app \notin Keys(matching_folders)
       THEN /\ IF rev = "app"
               THEN printed' = Msg("Error: Selected app not found.", <<>>) /\ ReturnsTrue
               ELSE Raises("KeyError")
            /\ UNCHANGED <<corevars, sub_page_name>>
       ELSE LET app_id == extract_app_id(rev, PathOf(matching_folders, chosen_app))
            IN IF rev = "app" /\ app_id = <<>>
               THEN /\ printed' = Msg("Error: Could not extract app ID from folder name.", <<>>)
                    /\ ReturnsTrue
                    /\ UNCHANGED <<corevars, sub_page_name>>
               ELSE /\ printed' = Msg("Checking Confluence page for app ID", <<>>)
                    /\ returned' = "pending"
                    /\ run' = run
                    /\ sub_page_name' = SubPageName(app_id)
                    /\ Construct("cli", env.CONFLUENCE_PAGE /\ env.CONFLUENCE_API_KEY,
                                 CheckScript(rev))

\* The page name of the docstring example
ClientSubPage == <<"1", "9", "5", "_", "A", "p", "p">>

\* A direct user of MyConfluenceAPI constructs a handle and will call the
\* resolver twice with the same keyword list
ClientConstruct ==
    /\ run = "library"
    /\ pc = "idle"
    /\ rev = "app"
    /\ \E conf \in BOOLEAN, kws \in ClientKeywordLists :
          Construct("client", conf, <<kws, kws>>)
    /\ sub_page_name' = ClientSubPage
    /\ UNCHANGED appvars

\* The user of a handle clears its base_url or token before the first call
\* of the resolver
ClientClearsConfig ==
    /\ caller = "client"
    /\ pc = "ready"
    /\ results = <<>>
    /\ configured
    /\ configured' = FALSE
    /\ UNCHANGED <<rev, caller, pc, body, script, log, results, raised,
                   sub_page_name, appvars>>

SetResp(l, resp) == [l EXCEPT ![Len(l)].resp = resp]

\* The second half of get_page_body and the assignment to self.body: the
\* answer to the page request
get_page_body(resp) ==
    /\ log' = SetResp(log, [status |-> resp.status, username |-> NoField])
    /\ IF resp.status = "ok"
       THEN /\ body' = resp.text
            /\ pc' = "ready"
            /\ raised' = NoException
       ELSE IF rev = "app"
       THEN /\ body' = Unfetched
            /\ pc' = "done"
            /\ raised' = "ValueError"
       ELSE IF resp.status = "http_error"
       THEN /\ body' = NoBody
            /\ pc' = "ready"
            /\ raised' = NoException
       ELSE /\ body' = Unfetched
            /\ pc' = "done"
            /\ raised' = "RequestException"

PageResponse ==
    /\ pc = "fetch"
    /\ \E resp \in PageResponses : get_page_body(resp)
    /\ UNCHANGED <<rev, caller, configured, script, results, sub_page_name, appvars>>

\* How a resolver call ends: its outcome is recorded; an exception ends the
\* check of the command line application, a direct client may call again
Return(out) ==
    LET stop == out.kind = "raise" /\ caller = "cli"
    IN /\ results' = Append(results, out)
       /\ raised' = IF stop THEN out.val ELSE raised
       /\ pc' = IF stop \/ Len(results) + 1 = Len(script) THEN "done" ELSE "ready"

\* Variant of get_person_responsible_by_keywords that fetches the page again
\* before it searches
get_person_responsible_by_keywords_refetch(list_key_words) ==
    LET c == Len(results) + 1
        loop == KeywordLoop(rev, body, list_key_words, 1)
        searches == [i \in 1..loop.tried |-> Search(c, list_key_words[i], body)]
        again == <<[PageRequest EXCEPT !.resp = [status |-> "ok", username |-> NoField]]>>
    IN /\ body' = body
       /\ IF ~loop.found
          THEN /\ log' = log \o again \o searches
               /\ Return(NoneVal)
          ELSE /\ log' = Append(log \o again \o searches, UserRequest(c, loop.key.val))
               /\ pc' = "lookup"
               /\ UNCHANGED <<results, raised>>

\* Variant of get_person_responsible_by_keywords that keeps state between
\* calls: once a key was found the markup is dropped
get_person_responsible_by_keywords_consume(list_key_words) ==
    LET c == Len(results) + 1
        loop == KeywordLoop(rev, body, list_key_words, 1)
        searches == [i \in 1..loop.tried |-> Search(c, list_key_words[i], body)]
    IN IF ~loop.found
       THEN /\ body' = body
            /\ log' = log \o searches
            /\ Return(NoneVal)
       ELSE /\ body' = EmptyText
            /\ log' = Append(log \o searches, UserRequest(c, loop.key.val))
            /\ pc' = "lookup"
            /\ UNCHANGED <<results, raised>>

\* Variant of get_person_responsible_by_keywords whose user lookup does not
\* look at base_url and token before it sends the request
get_person_responsible_by_keywords_unchecked(list_key_words) ==
    LET c == Len(results) + 1
        loop == KeywordLoop(rev, body, list_key_words, 1)
        searches == [i \in 1..loop.tried |-> Search(c, list_key_words[i], body)]
    IN /\ body' = body
       /\ IF ~loop.found
          THEN /\ log' = log \o searches
               /\ Return(NoneVal)
          ELSE /\ log' = Append(log \o searches, UserRequest(c, loop.key.val))
               /\ pc' = "lookup"
               /\ UNCHANGED <<results, raised>>

\* get_person_responsible_by_keywords up to the user request, or to its
\* return when no request is made
get_person_responsible_by_keywords(list_key_words) ==
    LET c == Len(results) + 1
        loop == KeywordLoop(rev, body, list_key_words, 1)
        searches == [i \in 1..loop.tried |-> Search(c, list_key_words[i], body)]
    IN /\ body' = body
       /\ IF ~loop.found
          THEN /\ log' = log \o searches
               /\ Return(NoneVal)
          ELSE IF rev = "app" /\ ~configured
          THEN /\ log' = log \o searches
               /\ Return(Raise("ValueError"))
          ELSE /\ log' = Append(log \o searches, UserRequest(c, loop.key.val))
               /\ pc' = "lookup"
               /\ UNCHANGED <<results, raised>>

ResolveCall ==
    /\ pc = "ready"
    /\ Len(results) < Len(script)
    /\ get_person_responsible_by_keywords(script[Len(results) + 1])
    /\ UNCHANGED <<rev, caller, configured, script, sub_page_name, appvars>>

\* Variant of Username that reads the field without a default
UsernameNoDefault(r, resp) ==
    IF r = "app" /\ resp.status # "ok" THEN Raise("ValueError")
    ELSE IF r = "cmd" /\ resp.status = "network_error" THEN Raise("RequestException")
    ELSE IF resp.username = NoField THEN NoneVal
    ELSE Str(resp.username)

\* Variant of Username without raise_for_status
UsernameNoRaiseForStatus(r, resp) ==
    IF resp.status = "network_error"
    THEN Raise(IF r = "app" THEN "ValueError" ELSE "RequestException")
    ELSE IF resp.username = NoField THEN Str("Username not found")
    ELSE Str(resp.username)

\* What get_username_by_user_key makes of the answer to the user request
Username(r, resp) ==
    IF r = "app"
    THEN IF resp.status # "ok" THEN Raise("ValueError")
         ELSE IF resp.username = NoField THEN Str("Username not found")
         ELSE Str(resp.username)
    ELSE IF resp.status = "network_error" THEN Raise("RequestException")
         ELSE IF resp.username = NoField THEN Str("Username not found")
         ELSE Str(resp.username)

\* get_username_by_user_key from the answer on, and the return of
\* get_person_responsible_by_keywords
get_username_by_user_key(resp) ==
    /\ log' = SetResp(log, resp)
    /\ body' = body
    /\ Return(Username(rev, resp))

LookupResponse ==
    /\ pc = "lookup"
    /\ \E resp \in UserResponses : get_username_by_user_key(resp)
    /\ UNCHANGED <<rev, caller, configured, script, sub_page_name, appvars>>

\* f"{main_dev or 'Not found'}"
OrNotFound(v) == IF Truthy(v) THEN v.val ELSE "Not found"

\* Variant of Caught with the network clause only
CaughtRequestExceptionOnly(r, e) == e = "RequestException"

\* The except clauses around the check: which exceptions they catch
Caught(r, e) == TRUE

\* What check_app_confluence_page prints when the check is over
Report(r, res, e) ==
    IF e = NoException
    THEN IF r = "app" THEN Msg("Main Developer", <<OrNotFound(res[1])>>)
         ELSE Msg("Main Developer, Analyst", <<OrNotFound(res[1]), OrNotFound(res[2])>>)
    ELSE IF r = "cmd" THEN Msg("Confluence Page can not be checked", <<>>)
    ELSE IF e = "RequestException"
    THEN Msg("Error: Could not connect to Confluence.", <<>>)
    ELSE Msg("Error: Confluence Page cannot be checked.", <<>>)

\* The check returns (or the client is done with the handle): the handle
\* and everything it held are dropped. check_app_confluence_page prints the
\* names or, from an except clause, a message, and handle_command returns.
Finish ==
    /\ pc = "done"
    /\ pc' = "idle"
    /\ caller' = "none"
    /\ configured' = TRUE
    /\ body' = Unfetched
    /\ script' = <<>>
    /\ log' = <<>>
    /\ results' = <<>>
    /\ raised' = NoException
    /\ sub_page_name' = NoSubPage
    /\ IF caller = "cli"
       THEN IF raised = NoException \/ Caught(rev, raised)
            THEN printed' = Report(rev, results, raised) /\ ReturnsTrue
            ELSE Raises(raised)
       ELSE UNCHANGED <<run, returned, printed>>
    /\ UNCHANGED <<rev, env, current_page, matching_folders, chosen_app, screen,
                   command>>

Next ==
    \/ Main
    \/ handle_command
    \/ KeyboardInterrupt
    \/ check_app_confluence_page
    \/ ClientConstruct
    \/ ClientClearsConfig
    \/ PageResponse
    \/ ResolveCall
    \/ LookupResponse
    \/ Finish

Spec == Init /\ [][Next]_vars

-----------------------------------------------------------------------------
(* Reading the log *)

\* The header searches and the user requests of resolver call c, in order
SearchesOf(c) == SelectSeq(log, LAMBDA e : e.ev = "search" /\ e.call = c)
RequestsOf(c) == SelectSeq(log, LAMBDA e : e.ev = "user" /\ e.call = c)
PageRequests == SelectSeq(log, LAMBDA e : e.ev = "page")

\* Keyword key_word yields a user key from html: the loop stops at it
Yields(html, key_word) == Truthy(get_person_responsible(rev, html, key_word))

Finished(c) == c <= Len(results)

\* The th elements of html (none when there is no markup)
RowsOf(html) == IF html.kind = "str" THEN html.rows ELSE <<>>

-----------------------------------------------------------------------------
(* Claims *)

\* C1: the keywords of a resolver call are searched strictly in the order of
\* the caller's list, the loop stops at the first keyword that yields a user
\* key (no later keyword is searched), that keyword's key is the one looked
\* up, and a call that returned without a key has searched every keyword.
C1_FirstKeywordWins ==
    \A c \in 1..Len(script) :
        LET s == SearchesOf(c)
            kws == script[c]
            reqs == RequestsOf(c)
        IN /\ Len(s) <= Len(kws)
           /\ \A i \in 1..Len(s) : s[i].key = kws[i]
           /\ \A i \in 1..Len(s) : Yields(s[i].html, kws[i]) => i = Len(s)
           /\ Len(reqs) <= 1
           /\ \A i \in 1..Len(reqs) :
                 /\ Len(s) > 0
                 /\ Yields(body, kws[Len(s)])
                 /\ reqs[i].key = get_person_responsible(rev, body, kws[Len(s)]).val
           /\ (Finished(c) /\ \A i \in 1..Len(s) : ~Yields(s[i].html, kws[i]))
                 => Len(s) = Len(kws)

\* C1 witness: a finished call with two keywords that both yield a key, where
\* only the first was searched and one lookup was made
C1_Witness ==
    \E c \in 1..Len(script) :
        /\ Finished(c)
        /\ Len(script[c]) = 2
        /\ Yields(body, script[c][1])
        /\ Yields(body, script[c][2])
        /\ script[c][1] # script[c][2]
        /\ Len(SearchesOf(c)) = 1
        /\ Len(RequestsOf(c)) = 1

\* C2: a resolver call none of whose keywords yields a user key from the
\* markup (the empty list and absent or empty markup included) returns None,
\* not an error, and issues no user request.
C2_NoMatchNoLookup ==
    \A c \in 1..Len(script) :
        (\A i \in 1..Len(script[c]) : ~Yields(body, script[c][i]))
            => /\ RequestsOf(c) = <<>>
               /\ Finished(c) => results[c] = NoneVal

\* C2 witness: a finished call on markup with th elements that searched two
\* keywords and returned None
C2_Witness ==
    \E c \in 1..Len(script) :
        /\ Finished(c)
        /\ results[c] = NoneVal
        /\ Len(RowsOf(body)) > 0
        /\ Len(SearchesOf(c)) = 2
        /\ FindTh(RowsOf(body), script[c][1]) > 0

\* A cell whose td holds a user reference with a ri:userkey attribute
HasKey(cell) == cell.td /\ cell.user /\ cell.attr

\* The answer carries a username
Carries(resp) == resp.status = "ok" /\ resp.username # NoField

\* Row i of the markup is a th with the given text whose td holds a user
\* reference with a non-empty key
KeyedHeader(i, text) ==
    /\ body.rows[i].th = text
    /\ HasKey(body.rows[i].cell)
    /\ body.rows[i].cell.key # ""

\* What C3 promises of call c for the key of row i
LooksUp(c, i) ==
    /\ Len(RequestsOf(c)) = 1
    /\ RequestsOf(c)[1].key = body.rows[i].cell.key
    /\ Carries(RequestsOf(c)[1].resp)
          => results[c] = Str(RequestsOf(c)[1].resp.username)

\* C3 as claimed: whenever some th whose text equals a keyword of the call is
\* followed by a td with a user reference of key K, and no earlier keyword
\* yields a key, the call looks K up and returns the username of the answer
\* (the handle holding its base URL and token).
C3_AnyHeaderCell ==
    \A c \in 1..Len(script) :
        \A j \in 1..Len(script[c]), i \in 1..Len(RowsOf(body)) :
            ( /\ Finished(c)
              /\ configured
              /\ KeyedHeader(i, script[c][j])
              /\ \A k \in 1..(j - 1) : ~Yields(body, script[c][k]) )
            => LooksUp(c, i)

\* C3 amended: whenever the first th (in document order) whose text equals a
\* keyword of the call is followed by a td whose user reference has a
\* non-empty key K, and no earlier keyword yields a key, the call (on a
\* handle that holds its base URL and token) issues exactly one user
\* request, with key K, and when the answer carries a username the call
\* returns it.
C3_FirstHeaderCell ==
    \A c \in 1..Len(script) :
        \A j \in 1..Len(script[c]), i \in 1..Len(RowsOf(body)) :
            ( /\ Finished(c)
              /\ configured
              /\ KeyedHeader(i, script[c][j])
              /\ \A h \in 1..(i - 1) : body.rows[h].th # script[c][j]
              /\ \A k \in 1..(j - 1) : ~Yields(body, script[c][k]) )
            => LooksUp(c, i)

\* C3 witness: a finished call that looked up key U2, found by the second
\* keyword of its list, and returned the username of the answer
C3_Witness ==
    \E c \in 1..Len(script) :
        /\ Finished(c)
        /\ Len(SearchesOf(c)) = 2
        /\ Len(RequestsOf(c)) = 1
        /\ RequestsOf(c)[1].key = "U2"
        /\ Carries(RequestsOf(c)[1].resp)
        /\ results[c] = Str(RequestsOf(c)[1].resp.username)

\* The page request was answered with a non-2xx status or not at all
PageFetchFailed ==
    \E i \in 1..Len(log) :
        log[i].ev = "page" /\ log[i].resp.status \in {"http_error", "network_error"}

\* C4 as claimed: when the page request fails, the fetch ends in an error
\* and the resolver is never invoked: no keyword is searched, no user request
\* is issued and no resolver call returns.
C4_FetchFailureStopsCheck ==
    PageFetchFailed
        => /\ raised # NoException
           /\ \A i \in 1..Len(log) : log[i].ev = "page"
           /\ results = <<>>

\* C5 as claimed, for MyConfluenceAPI (whose docstring promises ValueError
\* for malformed structure): a resolver call that searched a keyword whose
\* th has no following sibling td ends in an error, not in None.
C5_MalformedIsParseFailure ==
    \A c \in 1..Len(script) :
        ( /\ rev = "app"
          /\ Finished(c)
          /\ \E i \in 1..Len(SearchesOf(c)) :
                LET th == FindTh(RowsOf(body), SearchesOf(c)[i].key)
                IN th > 0 /\ ~body.rows[th].cell.td )
        => results[c].kind = "raise"

\* The user request failed: no answer, or (where the code calls
\* raise_for_status, in Confluence.py) a non-2xx answer
LookupFailed(e) ==
    /\ e.ev = "user"
    /\ \/ e.resp.status = "network_error"
       \/ rev = "app" /\ e.resp.status = "http_error"

\* C6: a failed user request ends its resolver call in an error (never in
\* None or a username), and after it the call issues no further request
\* and searches no further keyword.
C6_LookupFailureReported ==
    \A i \in 1..Len(log) :
        LookupFailed(log[i])
            => /\ Finished(log[i].call)
               /\ results[log[i].call].kind = "raise"
               /\ \A j \in (i + 1)..Len(log) : log[j].call # log[i].call
               /\ Len(RequestsOf(log[i].call)) = 1

\* C6 witness: the user request of a call was answered with a non-2xx status
\* in Confluence.py and the call ended in ValueError
C6_Witness ==
    \E i \in 1..Len(log) :
        /\ rev = "app"
        /\ log[i].ev = "user"
        /\ log[i].resp.status = "http_error"
        /\ Finished(log[i].call)
        /\ results[log[i].call] = Raise("ValueError")

\* C7: when the user request is answered successfully without a username
\* field, the call returns the string "Username not found".
C7_UsernameNotFound ==
    \A i \in 1..Len(log) :
        (log[i].ev = "user" /\ log[i].resp.status = "ok" /\ log[i].resp.username = NoField)
            => /\ Finished(log[i].call)
               /\ results[log[i].call] = Str("Username not found")

\* C7 witness: a call whose user request was answered without a username
\* field has returned
C7_Witness ==
    \E i \in 1..Len(log) :
        /\ log[i].ev = "user"
        /\ log[i].resp.status = "ok"
        /\ log[i].resp.username = NoField
        /\ Finished(log[i].call)
        /\ results[log[i].call].kind = "str"

Requests == SelectSeq(log, LAMBDA e : e.ev \in {"page", "user"})

\* Requests are made one after the other: only the last one can be
\* unanswered, and the page request comes first
Sequential ==
    /\ \A i \in 1..Len(Requests) : Requests[i].resp = Pending => i = Len(Requests)
    /\ \A i \in 1..Len(Requests) : Requests[i].ev = "page" <=> i = 1

C9_BodyFetchedOnce ==
    /\ [](/\ Len(PageRequests) <= 1
          /\ \A i \in 1..Len(log) : log[i].ev = "page" => i = 1
          /\ \A i \in 1..Len(log) :
                log[i].ev = "search" => log[i].html = body /\ body # Unfetched)
    /\ [][(body # Unfetched /\ pc' # "idle") => body' = body]_vars

\* C9 witness: two resolver calls on one handle have searched the fetched
\* markup
C9_Witness ==
    /\ Len(RowsOf(body)) > 0
    /\ Len(SearchesOf(1)) > 0
    /\ Len(SearchesOf(2)) > 0
    /\ Len(PageRequests) = 1

\* The endpoint answered the requests of calls c1 and c2 alike
SameAnswers(c1, c2) ==
    \A i \in 1..Len(RequestsOf(c1)), j \in 1..Len(RequestsOf(c2)) :
        RequestsOf(c1)[i].key = RequestsOf(c2)[j].key
            => RequestsOf(c1)[i].resp = RequestsOf(c2)[j].resp

\* C10: two finished resolver calls on one handle with the same keyword
\* list, whose user requests were answered alike, have the same result.
C10_SameCallSameResult ==
    \A c1, c2 \in 1..Len(script) :
        (Finished(c1) /\ Finished(c2) /\ script[c1] = script[c2] /\ SameAnswers(c1, c2))
            => results[c1] = results[c2]

\* C10 witness: two calls with the same keyword list each looked a key up
\* and returned the same username
C10_Witness ==
    /\ Len(results) = 2
    /\ script[1] = script[2]
    /\ Len(RequestsOf(1)) = 1
    /\ Len(RequestsOf(2)) = 1
    /\ results[1].kind = "str"
    /\ results[1] = results[2]


-----------------------------------------------------------------------------
(* C11 *)

\* C11: in Confluence.py, a handle whose base URL or token is absent or
\* empty makes no network request. Its page fetch raises the configuration
\* error (ValueError) with nothing requested, and every call of the resolver
\* that finds a user key raises the configuration error with no user request
\* sent.
C11_ConfigErrorBeforeRequest ==
    (rev = "app" /\ ~configured) =>
        /\ pc \in {"ready", "done"}
        /\ body = Unfetched => (pc = "done" /\ raised = "ValueError" /\ log = <<>>)
        /\ \A i \in 1..Len(log) : log[i].ev = "user" => FALSE
        /\ \A c \in 1..Len(results) :
              (\E j \in 1..Len(script[c]) : Yields(body, script[c][j]))
              => results[c] = Raise("ValueError")

\* C11 witness: a resolver call on a handle without configuration found a
\* user key in the page and ended with the configuration error
C11_Witness ==
    /\ rev = "app"
    /\ ~configured
    /\ Len(results) >= 1
    /\ \E j \in 1..Len(script[1]) : Yields(body, script[1][j])
    /\ results[1] = Raise("ValueError")

-----------------------------------------------------------------------------
(* C12 *)

ErrorMessages ==
    {"Error: Could not connect to Confluence.",
     "Error: Confluence Page cannot be checked.",
     "Confluence Page can not be checked"}

\* What the check prints for a resolved role
Shown(v) == IF v.kind = "str" /\ v.val # "" THEN v.val ELSE "Not found"

\* C12: the command line application catches every error of the core. While
\* a check runs the navigation state does not change and the loop stays
\* alive; however the check ends (an exception of the constructor or of a
\* resolver call, a page that could not be fetched, a role that was not
\* found, a resolved name), check_app_confluence_page returns normally,
\* having printed an error message after an exception and otherwise the name
\* or "Not found" for every role, and handle_command returns True.
C12_CheckAlwaysReturns ==
    /\ [][(caller = "cli" \/ caller' = "cli")
            => (UNCHANGED navvars /\ run' = "running")]_vars
    /\ [][(caller = "cli" /\ pc = "done")
            => /\ pc' = "idle"
               /\ returned' = "True"
               /\ IF raised # NoException
                  THEN printed'.msg \in ErrorMessages
                  ELSE /\ Len(printed'.args) = Len(results)
                       /\ \A c \in 1..Len(results) : printed'.args[c] = Shown(results[c])]_vars

\* C12 witness: a check that ended with an exception has returned; the
\* application printed its message and waits on the TEST_AUTOMATION page
C12_Witness ==
    /\ run = "running"
    /\ pc = "idle"
    /\ current_page = TEST_AUTOMATION
    /\ command = <<"1">>
    /\ returned = "True"
    /\ printed.msg \in ErrorMessages

-----------------------------------------------------------------------------
(* C13 *)

\* C13: handle_command returns False if and only if the command, compared
\* case-insensitively, is "exit", on every page; for every other command it
\* returns True; after "exit" the loop has stopped.
C13_FalseIffExit ==
    (command # NoCommand /\ returned # "pending") =>
        IF lower(command) = ExitCommand
        THEN returned = "False" /\ run = "exited"
        ELSE returned = "True"

-----------------------------------------------------------------------------
(* C14 *)

\* C14: once app.py has started, it has ended with the configuration error
\* if and only if at least one of APPS_FOLDER, CONFLUENCE_PAGE and
\* CONFLUENCE_API_KEY is missing or empty; and when it has, no page was
\* rendered, no command was read and no network request was made.
C14_ConfigErrorIffMissing ==
    (rev = "app" /\ run \notin {"start", "library"}) =>
        /\ run = "config_error"
              <=> (env.APPS_FOLDER = <<>> \/ ~env.CONFLUENCE_PAGE \/ ~env.CONFLUENCE_API_KEY)
        /\ run = "config_error" =>
              /\ printed.msg = "Configuration Error"
              /\ screen = "none"
              /\ command = NoCommand
              /\ log = <<>>
              /\ pc = "idle"

\* C14 witness: APPS_FOLDER alone is missing and the program has ended with
\* the configuration error
C14_Witness ==
    /\ rev = "app"
    /\ run = "config_error"
    /\ env.APPS_FOLDER = <<>>
    /\ env.CONFLUENCE_PAGE
    /\ env.CONFLUENCE_API_KEY

-----------------------------------------------------------------------------
(* C15 *)

\* C15: whenever the current page is TEST_AUTOMATION, chosen_app is set and
\* is a key of matching_folders; so the "No app selected" and "Selected app
\* not found" branches are never taken and the command "1" never ends in the
\* KeyError of the unguarded lookup of the older revision.
C15_ChosenAppIsKey ==
    /\ current_page = TEST_AUTOMATION =>
          /\ chosen_app # NoApp
          /\ \E it \in matching_folders : it.key = chosen_app
          /\ command = <<"1">> => returned \in {"pending", "True"}
    /\ printed.msg \notin {"No app selected", "Error: Selected app not found."}

\* C15 witness: the older revision has looked up the folder of the chosen
\* app, key 3 of the folders found, and waits for the page
C15_Witness ==
    /\ rev = "cmd"
    /\ current_page = TEST_AUTOMATION
    /\ chosen_app = 3
    /\ Keys(matching_folders) = {1, 3}
    /\ pc = "fetch"

-----------------------------------------------------------------------------
(* C16 *)

\* C16: the page changes only in these ways: from HOME to
\* INPUT_APP_FOR_CONFIG_CHECK on the command "1"; from
\* INPUT_APP_FOR_CONFIG_CHECK to CHOOSE_PROPOSED_APP on a numeric command
\* whose search leaves at least one folder; from CHOOSE_PROPOSED_APP to
\* TEST_AUTOMATION on a number that is a key of matching_folders (which
\* becomes chosen_app); from any page to HOME on "home" or "restart" in any
\* case. So TEST_AUTOMATION is entered only from CHOOSE_PROPOSED_APP and
\* left only to HOME.
C16_PageTransitions ==
    [][current_page' # current_page =>
        \/ /\ current_page = HOME
           /\ current_page' = INPUT_APP_FOR_CONFIG_CHECK
           /\ command' = <<"1">>
        \/ /\ current_page = INPUT_APP_FOR_CONFIG_CHECK
           /\ current_page' = CHOOSE_PROPOSED_APP
           /\ Len(command') > 0
           /\ \A i \in 1..Len(command') : command'[i] \in NumericChars
           /\ matching_folders' # {}
        \/ /\ current_page = CHOOSE_PROPOSED_APP
           /\ current_page' = TEST_AUTOMATION
           /\ Len(command') > 0
           /\ \A i \in 1..Len(command') : command'[i] \in Digits
           /\ \E it \in matching_folders : it.key = int(command')
           /\ chosen_app' = int(command')
        \/ /\ current_page' = HOME
           /\ lower(command') \in HomeCommands]_vars

\* C16 witness: app.py has just moved from CHOOSE_PROPOSED_APP to
\* TEST_AUTOMATION on the command "3", a key of matching_folders
C16_Witness ==
    /\ rev = "app"
    /\ current_page = TEST_AUTOMATION
    /\ screen = TEST_AUTOMATION
    /\ command = <<"3">>
    /\ chosen_app = 3
    /\ printed = NoMsg

-----------------------------------------------------------------------------
(* C17 *)

\* C17: whenever the current page (or the page on the screen) is
\* CHOOSE_PROPOSED_APP, matching_folders is not empty.
C17_ChooseListNotEmpty ==
    (current_page = CHOOSE_PROPOSED_APP \/ screen = CHOOSE_PROPOSED_APP)
    => matching_folders # {}

\* C17 witness: the search for "12" has opened the list with its one folder
C17_Witness ==
    /\ current_page = CHOOSE_PROPOSED_APP
    /\ screen = CHOOSE_PROPOSED_APP
    /\ command = <<"1", "2">>
    /\ Keys(matching_folders) = {1}

-----------------------------------------------------------------------------
(* C18 *)

\* The last component of a path: the folder's own name
Basename(path) ==
    LET seps == {i \in 1..Len(path) : path[i] = "/"}
        last == IF seps = {} THEN 0 ELSE CHOOSE x \in seps : \A y \in seps : y <= x
    IN SubSeq(path, last + 1, Len(path))

\* The <numericId> of a name <numericId>_<name>: its leading digits
LeadingId(name) ==
    LET stop == {i \in 1..Len(name) : name[i] \notin Digits}
        first == IF stop = {} THEN Len(name) + 1 ELSE CHOOSE x \in stop : \A y \in stop : x <= y
    IN SubSeq(name, 1, first - 1)

\* C18: the page a check requests is named "app_" followed by the numeric id
\* of the chosen folder's own name, whatever the path of the apps folder;
\* digits elsewhere in the stored path do not determine the id.
C18_PageIdFromFolderName ==
    (caller = "cli" /\ pc # "idle") =>
        sub_page_name =
            <<"a", "p", "p", "_">>
            \o LeadingId(Basename((CHOOSE it \in matching_folders : it.key = chosen_app).path))

-----------------------------------------------------------------------------
(* C19 *)

\* A step in which a numeric command on the search page was answered from
\* the listing of the apps folder
SearchStep ==
    /\ current_page = INPUT_APP_FOR_CONFIG_CHECK
    /\ run = "running"
    /\ pc = "idle"
    /\ Len(command') > 0
    /\ \A i \in 1..Len(command') : command'[i] \in NumericChars
    /\ returned' = "True"
    /\ printed'.msg \in {"", "No folders found with app number"}

\* The positions of the listing that hold a directory whose name has sub as
\* a substring
Hits(sub) ==
    {i \in 1..Len(Listing) :
        /\ Listing[i].isdir
        /\ \E k \in 0..(Len(Listing[i].name) - Len(sub)) :
              \A n \in 1..Len(sub) : Listing[i].name[k + n] = sub[n]}

\* C19: a successful search replaces matching_folders entirely: afterwards it
\* holds exactly the directories of the apps folder whose name contains the
\* command as a substring, each under its 1-based position in the full
\* listing and with the path of the directory inside the apps folder; no
\* entry of an earlier search survives. With no match it is empty and the
\* page stays INPUT_APP_FOR_CONFIG_CHECK, otherwise the list is shown.
C19_SearchReplacesFolders ==
    [][SearchStep =>
        /\ Keys(matching_folders') = Hits(command')
        /\ \A it \in matching_folders' :
              it.path = env.APPS_FOLDER \o <<"/">> \o Listing[it.key].name
        /\ \A it1, it2 \in matching_folders' : it1.key = it2.key => it1 = it2
        /\ IF Hits(command') = {}
           THEN matching_folders' = {} /\ current_page' = INPUT_APP_FOR_CONFIG_CHECK
           ELSE current_page' = CHOOSE_PROPOSED_APP]_vars

\* C19 witness: an earlier search had found the folders 1 and 3 (3 was
\* chosen); the search for "12" has left folder 1 alone
C19_Witness ==
    /\ current_page = CHOOSE_PROPOSED_APP
    /\ command = <<"1", "2">>
    /\ chosen_app = 3
    /\ Keys(matching_folders) = {1}

\* A search whose keys are not contiguous: positions 1 and 3 of the listing
C19_SparseKeys ==
    /\ current_page = CHOOSE_PROPOSED_APP
    /\ command = <<"2">>
    /\ Keys(matching_folders) = {1, 3}

-----------------------------------------------------------------------------
(* C20 *)

\* C20: the command "home" or "restart", in any case, sets the current page
\* to HOME from every page and leaves matching_folders and chosen_app as
\* they were.
C20_HomeKeepsSelection ==
    [][lower(command') \in HomeCommands =>
        /\ current_page' = HOME
        /\ matching_folders' = matching_folders
        /\ chosen_app' = chosen_app]_vars

\* C20 witness: "HOME" typed on the TEST_AUTOMATION page: the HOME page is
\* shown and the chosen app and the folders are still there
C20_Witness ==
    /\ current_page = HOME
    /\ command = <<"H", "O", "M", "E">>
    /\ chosen_app = 3
    /\ Keys(matching_folders) = {1, 3}

-----------------------------------------------------------------------------
(* C21 *)

\* A command the page does not accept: neither exit, home or restart nor a
\* number, on any page; a number other than "1" on HOME; a number that is
\* no key of matching_folders on CHOOSE_PROPOSED_APP; a number other than
\* "1" and "2" on TEST_AUTOMATION
Rejected(page, folders, cmd) ==
    LET numeric == Len(cmd) > 0 /\ \A i \in 1..Len(cmd) : cmd[i] \in NumericChars
        decimal == Len(cmd) > 0 /\ \A i \in 1..Len(cmd) : cmd[i] \in Digits
    IN IF ~numeric
       THEN lower(cmd) \notin ({ExitCommand} \cup HomeCommands)
       ELSE \/ page = HOME /\ cmd # <<"1">>
            \/ /\ page = CHOOSE_PROPOSED_APP
               /\ ~(decimal /\ \E it \in folders : it.key = int(cmd))
            \/ page = TEST_AUTOMATION /\ cmd \notin {<<"1">>, <<"2">>}

\* C21: in app.py, every turn of the loop that was given a rejected command
\* leaves current_page, matching_folders and chosen_app as they were, and
\* handle_command returns True.
C21_RejectedCommandKeepsState ==
    [][(/\ rev = "app"
        /\ run = "running"
        /\ pc = "idle"
        /\ run' = "running"
        /\ Rejected(current_page, matching_folders, command'))
       => (UNCHANGED navvars /\ returned' = "True")]_vars

-----------------------------------------------------------------------------
(* C22 *)

\* A turn of the loop in which a numeric command on the search page met an
\* apps folder that is not configured or does not exist: app.py prints one
\* of its two messages, in the older revision os.listdir raises
\* FileNotFoundError
FailedSearchStep ==
    /\ current_page = INPUT_APP_FOR_CONFIG_CHECK
    /\ run = "running"
    /\ pc = "idle"
    /\ Len(command') > 0
    /\ \A i \in 1..Len(command') : command'[i] \in NumericChars
    /\ \/ /\ rev = "app"
          /\ printed'.msg \in {"Error: APPS_FOLDER not configured.",
                               "Error: Apps folder not found"}
       \/ /\ rev = "cmd"
          /\ returned' = "raised"
          /\ printed'.msg = "Traceback"
          /\ printed'.args = <<"FileNotFoundError">>

\* C22: a search that fails because the apps folder is not configured or
\* does not exist leaves the page INPUT_APP_FOR_CONFIG_CHECK and
\* matching_folders and chosen_app as they were, and handle_command returns
\* True: the error is a message, not an exception.
C22_FailedSearchKeepsState ==
    [][FailedSearchStep =>
        /\ current_page' = INPUT_APP_FOR_CONFIG_CHECK
        /\ matching_folders' = matching_folders
        /\ chosen_app' = chosen_app
        /\ returned' = "True"
        /\ run' = "running"]_vars

====
